---- MODULE Spec2Model ----
(***************************************************************************)
(* Model of the two pipeline editors of Pandas-as-a-service:               *)
(*   "canvas"   - PipelineEditor          (studio/pipeline_canvas_editor)  *)
(*   "enhanced" - EnhancedPipelineEditor  (unnamed/part_001)               *)
(* One behaviour follows one mounted editor.  Every event handler, timer   *)
(* callback and FileReader callback is one atomic step (JavaScript runs    *)
(* them to completion), and includes the render and the effects React      *)
(* runs for the state it sets.                                             *)
(*                                                                         *)
(* Encoding of JavaScript values:                                          *)
(*   - an absent property is Undefined ("undefined"); an absent lastRun is *)
(*     NoLastRun; the `services` property carries a has_services flag;     *)
(*   - null selection is NoId, the empty tuple;                            *)
(*   - a service id `${type}-${Date.now()}` is the pair <<type, now>>;     *)
(*   - an object literal such as a service spec or the shared state is the *)
(*     set of its <<key, value>> pairs;                                    *)
(*   - a text is [ok, value]: ok says whether JSON.parse accepts it.       *)
(* Not modelled: title, position, pan/zoom, viewMode (fixed to 'split'),   *)
(* connections, log timestamps.                                            *)
(***************************************************************************)
EXTENDS Integers, Sequences, FiniteSets, TLC

\* ---------------------------------------------------------------- bounds
MaxClock    == 1   \* Date.now() ranges over 0..MaxClock
MaxServices == 2   \* services a document built in the editor holds
MaxRuns     == 2   \* runPipeline calls in one behaviour
MaxReads    == 1   \* FileReader loads in flight
MaxLogKept  == 1   \* newest log entries the model keeps (see addLog)
MaxSteps    == 4   \* user events (clicks, edits) in one behaviour
MaxLedger   == 3   \* audit records a ledger holds
MaxLogCalls == 55  \* addLog calls of the log specification

\* ------------------------------------------------------ program constants
MaxTicks         == 5
LogLimitCanvas   == 50
LogLimitEnhanced == 30
NoLastRun        == -1

Undefined == "undefined"
Null      == "null"
NoId      == << >>

Editors == {"canvas", "enhanced"}

VARIABLES
  editor,          \* which component is mounted
  now,             \* the wall clock read by Date.now() / new Date()
  spc,             \* the SPC document (useState spc)
  selectedService, \* selectedService (canvas) / selectedNode (enhanced)
  isRunning,       \* useState isRunning
  logs,            \* executionLog (canvas) / logs (enhanced)
  jsonError,       \* canvas: useState jsonError
  jsonText,        \* canvas: JsonEditor's local jsonText
  canvasNodes,     \* canvas: useState canvasNodes
  inspector,       \* enhanced: Inspector's local state, when mounted
  timers,          \* one entry per runPipeline call: the closure's tick counter
  due,             \* runs whose timer is armed, in the order they fire next
  reads,           \* texts handed to a FileReader, not yet loaded
  exported,        \* the file of the last export, if any
  ledger,          \* the execution kernel's audit records, oldest first
  tickCount,       \* the execution kernel's tick counter
  kstate,          \* the execution kernel's shared state map
  kstatus,         \* the status of each service of the kernel's document
  lastTick,        \* what the kernel's last tick executed and emitted
  executionLog,    \* the whole log as addLog keeps it (log specification)
  logCalls,        \* addLog calls so far (log specification)
  steps            \* user events so far

vars == <<editor, now, spc, selectedService, isRunning, logs, jsonError,
          jsonText, canvasNodes, inspector, timers, due, reads, exported, steps,
          ledger, tickCount, kstate, kstatus, lastTick, executionLog, logCalls>>

\* Variables of the log specification and of the kernel's tick
LogVars == <<executionLog, logCalls>>
TickVars == <<kstate, kstatus, lastTick>>

\* ----------------------------------------------------------- type tables
SERVICE_TYPES ==
  [ connector  |-> {<<"url", "">>, <<"outputKey", "">>},
    processor  |-> {<<"inputKey", "">>, <<"outputKey", "">>, <<"transform", "[]">>},
    monitor    |-> {<<"checks", "[]">>, <<"emit", "onChange">>},
    adapter    |-> {<<"kind", "webhook">>, <<"url", "">>},
    aggregator |-> {<<"inputKey", "">>, <<"window", "{size_sec:30}">>},
    vault      |-> {<<"provider", "">>, <<"secrets", "[]">>} ]

SERVICE_CONFIGS ==
  {"connector", "processor", "monitor", "adapter", "aggregator", "vault"}

getDefaultSpec(type) ==
  CASE type = "connector"  -> {<<"url", "https://api.example.com/data">>,
                               <<"outputKey", "connector_data">>}
    [] type = "processor"  -> {<<"inputKey", "">>, <<"outputKey", "processor_output">>,
                               <<"transform", "[]">>}
    [] type = "monitor"    -> {<<"checks", "[]">>, <<"emit", "onChange">>}
    [] type = "adapter"    -> {<<"kind", "webhook">>,
                               <<"url", "https://hooks.example.com/webhook">>}
    [] type = "aggregator" -> {<<"inputKey", "">>, <<"window", "{size_sec:30}">>}
    [] type = "vault"      -> {<<"provider", "hashicorp-vault">>, <<"secrets", "[]">>}
    [] OTHER               -> {}

KnownTypes(ed) ==
  IF ed = "canvas" THEN DOMAIN SERVICE_TYPES ELSE SERVICE_CONFIGS

DefaultSpec(ed, type) ==
  IF ed = "canvas" THEN SERVICE_TYPES[type] ELSE getDefaultSpec(type)

\* ------------------------------------------------------------- documents
NoServices == [i \in {} |-> 0]

Service(id, type, spec, status, lastRun) ==
  [id |-> id, type |-> type, spec |-> spec, status |-> status, lastRun |-> lastRun]

InitialSpc(ed) ==
  [ spc_version  |-> "1.0",
    meta         |-> IF ed = "canvas" THEN "Untitled Pipeline" ELSE "My Pipeline",
    has_services |-> TRUE,
    services     |-> NoServices,
    state        |-> {} ]

\* JSON.parse / JSON.stringify on the values the model holds
JSONstringify(value) == [ok |-> TRUE, value |-> value]
Parses(text)         == text.ok
JSONparse(text)      == text.value


\* ---------------------------------------------------------------- inputs
\* Types the user picks from the palette (a subset of the type table).
PaletteInputs == {"connector", "adapter"}

DocWith(version, hasServices, services, state) ==
  [ spc_version  |-> version,
    meta         |-> "Imported",
    has_services |-> hasServices,
    services     |-> services,
    state        |-> state ]

OneService(s) == [i \in {s.id} |-> s]

TwoServices(s, t) == [i \in {s.id, t.id} |-> IF i = s.id THEN s ELSE t]

\* Documents a user may import or type, by index.
\*   1 unparseable text            2 no spc_version
\*   3 no services                 4 valid: a running connector and a
\*   5 a router service              stopped adapter, with shared state
\*   6 a connector whose spec is not a connector spec
DocInputs == 1..6

DocValue(i) ==
  CASE i = 2 -> DocWith(Undefined, TRUE, NoServices, {})
    [] i = 3 -> DocWith("1.0", FALSE, NoServices, {})
    [] i = 4 -> DocWith("1.0", TRUE,
                  TwoServices(
                    Service(<<"connector", 0>>, "connector",
                            SERVICE_TYPES["connector"], "running", NoLastRun),
                    Service(<<"adapter", 0>>, "adapter",
                            SERVICE_TYPES["adapter"], "stopped", NoLastRun)),
                  {<<"raw", "1">>})
    [] i = 5 -> DocWith("1.0", TRUE,
                  OneService(Service(<<"router", 0>>, "router",
                                     {<<"condition", "x">>}, "running", NoLastRun)),
                  {})
    [] i = 6 -> DocWith("1.0", TRUE,
                  OneService(Service(<<"connector", 0>>, "connector",
                                     {<<"bogus", "1">>}, "stopped", NoLastRun)),
                  {})
    [] OTHER -> DocWith(Undefined, FALSE, NoServices, {})

DocText(i) == [ok |-> i # 1, value |-> DocValue(i)]

\* Texts a user may type into the Inspector's spec box, by index.
\*   1 unparseable text   2 the empty object   3 a connector spec
SpecInputs == 1..3

SpecValue(i) ==
  CASE i = 3 -> {<<"url", "https://x">>, <<"outputKey", "raw">>}
    [] OTHER -> {}

SpecText(i) == [ok |-> i # 1, value |-> SpecValue(i)]

\* ------------------------------------------------------------------ logs
LogLimit(ed) == IF ed = "canvas" THEN LogLimitCanvas ELSE LogLimitEnhanced

\* slice(0, n): keeps the oldest n
SliceFirst(s, n) ==
  IF Len(s) <= n THEN s ELSE SubSeq(s, 1, n)

\* Array.prototype.slice(-n)
SliceLast(s, n) ==
  IF Len(s) <= n THEN s ELSE SubSeq(s, Len(s) - n + 1, Len(s))

Entry(level, message, id, tick) ==
  [level |-> level, message |-> message, id |-> id, tick |-> tick]

\* addLog keeps the newest LogLimit entries; of those the model keeps the
\* newest MaxLogKept (slice(-k) of slice(-n) is slice(-k) when k <= n, so
\* `logs` is exactly the tail of the program's log).
LogKept(ed) == IF MaxLogKept < LogLimit(ed) THEN MaxLogKept ELSE LogLimit(ed)

\* The updater addLog hands to the state setter
addLogUpdater(prev, ed, entry) ==
  SliceLast(Append(prev, entry), LogLimit(ed))

addLog(prev, ed, entry) ==
  SliceLast(addLogUpdater(prev, ed, entry), LogKept(ed))

\* ---------------------------------------------------------------- render
Ids(doc) == DOMAIN doc.services

\* The render (or an effect) of the component throws a TypeError; without
\* an error boundary React then unmounts the editor.
RenderThrows(ed, doc, sel) ==
  \/ doc.meta = Undefined
  \/ ~doc.has_services
  \/ \E id \in Ids(doc) : doc.services[id].type \notin KnownTypes(ed)
  \/ ed = "canvas" /\ sel # NoId /\ sel \notin Ids(doc)

Mounted == ~RenderThrows(editor, spc, selectedService)

\* A user event: a click or an edit; a behaviour holds at most MaxSteps
UserEvent == steps < MaxSteps /\ steps' = steps + 1

\* useEffect: canvasNodes from spc.services
NodesOf(doc) ==
  { [id |-> id, type |-> doc.services[id].type,
     status |-> IF doc.services[id].status = Undefined
                THEN "stopped" ELSE doc.services[id].status] : id \in Ids(doc) }

InspectorShown(ed, doc, sel) ==
  ed = "enhanced" /\ sel # NoId /\ doc.has_services /\ sel \in Ids(doc)

Unmounted == [mounted |-> FALSE, specJson |-> SpecText(1), error |-> Null]

\* The commit that follows a handler: effects of the canvas editor, mount
\* and unmount of the enhanced editor's Inspector.  spcSet: the handler
\* called setSpc; text, insp: the local state the handler left.
Commit(spcSet, text, insp) ==
  LET dead == RenderThrows(editor, spc', selectedService')
      show == InspectorShown(editor, spc', selectedService')
  IN /\ canvasNodes' = IF editor = "canvas" /\ ~dead
                       THEN NodesOf(spc') ELSE canvasNodes
     /\ jsonText' = IF editor = "canvas" /\ ~dead /\ spcSet
                    THEN JSONstringify(spc') ELSE text
     /\ inspector' = IF dead THEN insp
                     ELSE IF ~show THEN Unmounted
                     ELSE IF ~insp.mounted
                          THEN [mounted |-> TRUE,
                                specJson |-> JSONstringify(
                                   spc'.services[selectedService'].spec),
                                error |-> Null]
                          ELSE insp

\* ------------------------------------------------- the kernel's document
\* The services of the document the kernel runs, in scan order: a connector
\* writing `raw` and a processor deriving `clean` from `raw`.
KServiceIds == {"src", "proc"}

StateKeys == {"raw", "clean"}

\* A key that was never written reads as Undefined
EmptyState == [k \in StateKeys |-> Undefined]

NoTick == [results |-> << >>, events |-> << >>]

\* ------------------------------------------------------------------ Init
Init ==
  /\ editor \in Editors
  /\ now = 0
  /\ spc = InitialSpc(editor)
  /\ selectedService = NoId
  /\ isRunning = FALSE
  /\ logs = << >>
  /\ jsonError = Null
  /\ jsonText = JSONstringify(InitialSpc(editor))
  /\ canvasNodes = {}
  /\ inspector = Unmounted
  /\ timers = << >>
  /\ due = << >>
  /\ reads = << >>
  /\ exported = << >>
  /\ ledger = << >>
  /\ tickCount = 0
  /\ kstate = EmptyState
  /\ kstatus = [id \in KServiceIds |-> "running"]
  /\ lastTick = NoTick
  /\ executionLog = << >>
  /\ logCalls = 0
  /\ steps = 0

\* ----------------------------------------------------- service management
Put(services, id, s) ==
  [i \in DOMAIN services \cup {id} |-> IF i = id THEN s ELSE services[i]]

\* Remove that drops every service
RemoveAll(services, id) ==
  [i \in {} |-> services[i]]

\* delete newServices[id] on a copy of the services
Remove(services, id) ==
  [i \in DOMAIN services \ {id} |-> services[i]]

\* updateService(id, updates) with updates = { [field]: value }
updateService(doc, id, field, value) ==
  [doc EXCEPT !.services = [@ EXCEPT ![id] = [@ EXCEPT ![field] = value]]]

\* addService(type): palette button
AddService(type) ==
  LET id == <<type, now>>
      s  == Service(id, type, DefaultSpec(editor, type), "stopped", NoLastRun)
  IN /\ Mounted
     /\ UserEvent
     /\ type \in PaletteInputs
     /\ Cardinality(Ids(spc) \cup {id}) <= MaxServices
     /\ UNCHANGED <<ledger, tickCount, LogVars, TickVars, exported, editor, now, isRunning, jsonError, timers, due, reads>>
     /\ spc' = [spc EXCEPT !.services = Put(@, id, s)]
     /\ selectedService' = IF editor = "canvas" THEN id ELSE selectedService
     /\ logs' = IF editor = "enhanced"
                THEN addLog(logs, editor, Entry("info", "Added service", id, 0))
                ELSE logs
     /\ Commit(TRUE, jsonText, inspector)

\* deleteService(id): the x button of a node
DeleteService(id) ==
  /\ Mounted
  /\ UserEvent
  /\ id \in Ids(spc)
  /\ UNCHANGED <<ledger, tickCount, LogVars, TickVars, exported, editor, now, isRunning, jsonError, timers, due, reads>>
  /\ spc' = [spc EXCEPT !.services = Remove(@, id)]
  /\ selectedService' = IF selectedService = id THEN NoId ELSE selectedService
  /\ logs' = IF editor = "enhanced"
             THEN addLog(logs, editor, Entry("warn", "Deleted service", id, 0))
             ELSE logs
  /\ Commit(TRUE, jsonText, inspector)

\* onSelectService(node.id) / onSelect: mouse down on a node
SelectService(id) ==
  /\ Mounted
  /\ UserEvent
  /\ id \in Ids(spc)
  /\ UNCHANGED <<ledger, tickCount, LogVars, TickVars, exported, editor, now, spc, isRunning, logs, jsonError, timers, due, reads>>
  /\ selectedService' = id
  /\ Commit(FALSE, jsonText, inspector)

\* onClose of the inspector
CloseInspector ==
  /\ Mounted
  /\ UserEvent
  /\ selectedService # NoId
  /\ UNCHANGED <<ledger, tickCount, LogVars, TickVars, exported, editor, now, spc, isRunning, logs, jsonError, timers, due, reads>>
  /\ selectedService' = NoId
  /\ Commit(FALSE, jsonText, inspector)

\* the inspector's status <select>: onUpdate({ status })
SetStatus(status) ==
  /\ Mounted
  /\ UserEvent
  /\ selectedService \in Ids(spc)
  /\ UNCHANGED <<ledger, tickCount, LogVars, TickVars, exported, editor, now, selectedService, isRunning, logs, jsonError,
                 timers, due, reads>>
  /\ spc' = updateService(spc, selectedService, "status", status)
  /\ Commit(TRUE, jsonText, inspector)

\* Inspector.handleSpecChange(value) of the enhanced editor
HandleSpecChange(i) ==
  LET value == SpecText(i)
  IN /\ editor = "enhanced"
     /\ Mounted
     /\ UserEvent
     /\ inspector.mounted
     /\ UNCHANGED <<ledger, tickCount, LogVars, TickVars, exported, editor, now, selectedService, isRunning, logs, jsonError,
                    timers, due, reads>>
     /\ IF Parses(value)
        THEN /\ spc' = updateService(spc, selectedService, "spec", JSONparse(value))
             /\ Commit(TRUE, jsonText,
                       [mounted |-> TRUE, specJson |-> value, error |-> Null])
        ELSE /\ spc' = spc
             /\ Commit(FALSE, jsonText,
                       [mounted |-> TRUE, specJson |-> value, error |-> "SyntaxError"])

\* JsonEditor.handleJsonChange of the canvas editor
HandleJsonChange(i) ==
  LET text == DocText(i)
  IN /\ editor = "canvas"
     /\ Mounted
     /\ UserEvent
     /\ UNCHANGED <<ledger, tickCount, LogVars, TickVars, exported, editor, now, selectedService, isRunning, logs, timers, due, reads>>
     /\ IF Parses(text)
        THEN /\ spc' = JSONparse(text)
             /\ jsonError' = Null
             /\ Commit(TRUE, text, inspector)
        ELSE /\ spc' = spc
             /\ jsonError' = "SyntaxError"
             /\ Commit(FALSE, text, inspector)

\* ---------------------------------------------------- execution controls
\* runPipeline: the Run button, rendered only while !isRunning
RunPipeline ==
  /\ Mounted
  /\ UserEvent
  /\ ~isRunning
  /\ Len(timers) < MaxRuns
  /\ UNCHANGED <<ledger, tickCount, LogVars, TickVars, exported, editor, now, spc, selectedService, jsonError, reads>>
  /\ isRunning' = TRUE
  /\ logs' = addLog(logs, editor,
                IF editor = "canvas"
                THEN Entry("info", "Pipeline started", NoId, 0)
                ELSE Entry("success", "Pipeline execution started", NoId, 0))
  /\ timers' = Append(timers, [tick |-> 0])
  /\ due' = Append(due, Len(timers) + 1)
  /\ Commit(FALSE, jsonText, inspector)

\* What a stop could touch: the running flag, the timers of the runs with
\* their pending ticks, and the document
Sched ==
  [isRunning |-> isRunning, timers |-> timers, due |-> due, spc |-> spc]

\* stopPipeline that flips the running flag
stopPipelineToggles(s) == [s EXCEPT !.isRunning = ~@]

\* stopPipeline's state change: setIsRunning(false) and nothing else
stopPipeline(s) == [s EXCEPT !.isRunning = FALSE]

\* stopPipeline: the Stop button, rendered only while isRunning
StopPipeline ==
  /\ Mounted
  /\ UserEvent
  /\ isRunning
  /\ UNCHANGED <<ledger, tickCount, LogVars, TickVars, exported, editor, now, selectedService, jsonError, reads>>
  /\ isRunning' = stopPipeline(Sched).isRunning
  /\ timers' = stopPipeline(Sched).timers
  /\ due' = stopPipeline(Sched).due
  /\ spc' = stopPipeline(Sched).spc
  /\ logs' = addLog(logs, editor,
                Entry("warn", IF editor = "canvas" THEN "Pipeline stopped"
                              ELSE "Pipeline stopped by user", NoId, 0))
  /\ Commit(FALSE, jsonText, inspector)

\* tickOnce: the Zap button
TickOnce ==
  /\ Mounted
  /\ UserEvent
  /\ UNCHANGED <<ledger, tickCount, LogVars, TickVars, exported, editor, now, spc, selectedService, isRunning, jsonError,
                 timers, due, reads>>
  /\ logs' = addLog(logs, editor,
                Entry("info", IF editor = "canvas" THEN "Single tick executed"
                              ELSE "Manual tick executed", NoId, 0))
  /\ Commit(FALSE, jsonText, inspector)

\* TickBody that also resets the shared state
TickBodyWipesState(doc, t) ==
  [doc EXCEPT !.state = {},
              !.services =
     [id \in DOMAIN @ |-> IF @[id].status = "running"
                          THEN [@[id] EXCEPT !.lastRun = t]
                          ELSE @[id]]]

\* TickBody that stops every service it executed
TickBodyStopsAll(doc, t) ==
  [doc EXCEPT !.services =
     [id \in DOMAIN @ |-> IF @[id].status = "running"
                          THEN [@[id] EXCEPT !.lastRun = t, !.status = "stopped"]
                          ELSE @[id]]]

\* TickBody without its `status === 'running'` test
TickBodyAll(doc, t) ==
  [doc EXCEPT !.services =
     [id \in DOMAIN @ |-> [@[id] EXCEPT !.lastRun = t]]]

\* The setSpc updater of a tick of the enhanced editor's run
TickBody(doc, t) ==
  [doc EXCEPT !.services =
     [id \in DOMAIN @ |-> IF @[id].status = "running"
                          THEN [@[id] EXCEPT !.lastRun = t]
                          ELSE @[id]]]

\* The setInterval callback of run r (enhanced editor).  All intervals have
\* the same period, so the armed timers fire in rotation: the head of `due`
\* fires and, unless cleared, goes to the back.  State setters of an
\* unmounted component do nothing; the closure's counter still counts.
IntervalTick(r) ==
  LET n    == timers[r].tick + 1
      done == n >= MaxTicks
      l1   == addLog(logs, editor, Entry("info", "Tick - Processing services", NoId, n))
  IN /\ editor = "enhanced"
     /\ due # << >>
     /\ r = Head(due)
     /\ UNCHANGED <<ledger, tickCount, LogVars, TickVars, exported, steps, editor, now, selectedService, jsonError, reads>>
     /\ timers' = [timers EXCEPT ![r].tick = n]
     /\ due' = IF done THEN Tail(due) ELSE Append(Tail(due), r)
     /\ IF Mounted
        THEN /\ spc' = TickBody(spc, now)
             /\ logs' = IF done
                        THEN addLog(l1, editor,
                               Entry("success", "Pipeline execution completed", NoId, 0))
                        ELSE l1
             /\ isRunning' = IF done THEN FALSE ELSE isRunning
        ELSE UNCHANGED <<spc, logs, isRunning>>
     /\ Commit(Mounted, jsonText, inspector)

\* The setTimeout callback of run r (canvas editor).  All timeouts have the
\* same delay, so they fire in the order they were set.
TimeoutFire(r) ==
  /\ editor = "canvas"
  /\ due # << >>
  /\ r = Head(due)
  /\ UNCHANGED <<ledger, tickCount, LogVars, TickVars, exported, steps, editor, now, spc, selectedService, jsonError, reads, timers>>
  /\ due' = Tail(due)
  /\ IF Mounted
     THEN /\ logs' = addLog(logs, editor,
                       Entry("success", "Pipeline executed successfully", NoId, 0))
          /\ isRunning' = FALSE
     ELSE UNCHANGED <<logs, isRunning>>
  /\ Commit(FALSE, jsonText, inspector)

\* -------------------------------------------------------- file operations
\* exportSPC: the download writes the serialized document to a file and
\* leaves the editor's state alone
ExportSPC ==
  /\ Mounted
  /\ UserEvent
  /\ exported' = <<JSONstringify(spc)>>
  /\ UNCHANGED <<ledger, tickCount, LogVars, TickVars, editor, now, spc, selectedService, isRunning, jsonError,
                 timers, due, reads>>
  /\ logs' = addLog(logs, editor, Entry(IF editor = "canvas" THEN "info" ELSE "success",
                                        "SPC exported successfully", NoId, 0))
  /\ Commit(FALSE, jsonText, inspector)

\* Files the user may choose, by index: 0 is the file of the last export,
\* the others hold the documents of DocInputs
FileInputs == {0} \cup DocInputs

FileText(i) == IF i = 0 THEN exported[1] ELSE DocText(i)

\* importSPC: a file is chosen and handed to a FileReader
ImportSPC(i) ==
  /\ Mounted
  /\ UserEvent
  /\ Len(reads) < MaxReads
  /\ (i = 0 => exported # << >>)
  /\ reads' = Append(reads, FileText(i))
  /\ UNCHANGED <<ledger, tickCount, LogVars, TickVars, exported, editor, now, spc, selectedService, isRunning, logs, jsonError,
                 jsonText, canvasNodes, inspector, timers, due>>

\* What importSPC's try block throws for a text, or Null
ImportError(ed, text) ==
  IF ~Parses(text) THEN "SyntaxError"
  ELSE IF ed = "canvas" /\ (JSONparse(text).spc_version = Undefined
                            \/ ~JSONparse(text).has_services)
       THEN "Invalid SPC format"
       ELSE Null

\* reader.onload of importSPC
ReaderOnload ==
  LET text == Head(reads)
      err  == ImportError(editor, text)
  IN /\ reads # << >>
     /\ UNCHANGED <<ledger, tickCount, LogVars, TickVars, exported, steps, editor, now, selectedService, isRunning, timers, due>>
     /\ reads' = Tail(reads)
     /\ IF ~Mounted
        THEN /\ UNCHANGED <<spc, jsonError, logs>>
             /\ Commit(FALSE, jsonText, inspector)
        ELSE IF err = Null
        THEN /\ spc' = JSONparse(text)
             /\ jsonError' = Null
             /\ logs' = addLog(logs, editor,
                          Entry(IF editor = "canvas" THEN "info" ELSE "success",
                                "SPC imported successfully", NoId, 0))
             /\ Commit(TRUE, jsonText, inspector)
        ELSE /\ spc' = spc
             /\ jsonError' = IF editor = "canvas" THEN err ELSE jsonError
             /\ logs' = addLog(logs, editor,
                          Entry("error", IF err = "SyntaxError"
                                         THEN "Import failed: SyntaxError"
                                         ELSE "Import failed: Invalid SPC format",
                                NoId, 0))
             /\ Commit(FALSE, jsonText, inspector)

\* ----------------------------------------------------------------- clock
AdvanceClock ==
  /\ now < MaxClock
  /\ now' = now + 1
  /\ UNCHANGED <<ledger, tickCount, LogVars, TickVars, exported, steps, editor, spc, selectedService, isRunning, logs, jsonError,
                 jsonText, canvasNodes, inspector, timers, due, reads>>

\* ------------------------------------------------------- execution kernel
\* The engine the editors' documents are written for is not part of the
\* sources; its audit ledger is modelled from its specification.

\* Patches and event lists a tick may hand to the ledger
Patches == { {}, {<<"raw", "1">>} }
EventLists == { << >>, <<"fired">> }

\* The fixed genesis constant
Genesis == <<"genesis">>

serialize(tick, patch, events) == <<tick, patch, events>>

\* A collision-free hash: the value names what was hashed
H(prevHash, data) == <<prevHash, data>>

\* append that chains every record to the genesis constant
appendUnchained(led, tick, patch, events) ==
  Append(led, [tick |-> tick, timestamp |-> now, patch |-> patch,
               events |-> events, prevHash |-> Genesis,
               hash |-> H(Genesis, serialize(tick, patch, events))])

\* append(tick, patch, events): the record of a tick, chained to the last
append(led, tick, patch, events) ==
  LET prevHash == IF led = << >> THEN Genesis ELSE led[Len(led)].hash
  IN Append(led, [tick |-> tick, timestamp |-> now, patch |-> patch,
                  events |-> events, prevHash |-> prevHash,
                  hash |-> H(prevHash, serialize(tick, patch, events))])

\* verify that follows the links and recomputes no hash
verifyLinksOnly(led) ==
  \A k \in 1..Len(led) :
    led[k].prevHash = IF k = 1 THEN Genesis ELSE led[k - 1].hash

\* verify(ledger): recomputes every hash from genesis and confirms that the
\* chain is unbroken
verify(led) ==
  \A k \in 1..Len(led) :
    /\ led[k].prevHash = IF k = 1 THEN Genesis ELSE led[k - 1].hash
    /\ led[k].hash = H(led[k].prevHash,
                       serialize(led[k].tick, led[k].patch, led[k].events))

EditorVars ==
  <<editor, spc, selectedService, isRunning, logs, jsonError, jsonText,
    canvasNodes, inspector, timers, due, reads, exported, steps>>

\* tick(): one cycle of the kernel, ending with the ledger append
KernelTick(patch, events) ==
  /\ Len(ledger) < MaxLedger
  /\ tickCount' = tickCount + 1
  /\ ledger' = append(ledger, tickCount + 1, patch, events)
  /\ UNCHANGED <<now, EditorVars, LogVars, TickVars>>

\* A new run is initiated: the ledger is reset to a fresh genesis
KernelNewRun ==
  /\ ledger # << >>
  /\ ledger' = << >>
  /\ tickCount' = 0
  /\ UNCHANGED <<now, EditorVars, LogVars, TickVars>>

NextKernel ==
  \/ \E patch \in Patches, events \in EventLists : KernelTick(patch, events)
  \/ KernelNewRun
  \/ AdvanceClock

SpecKernel == Init /\ [][NextKernel]_vars

\* ----------------------------------------------------- the kernel's tick
\* One cycle over the kernel's document: scan the running services, execute
\* each handler on the state, merge the patches, append to the ledger.

KType(id) == IF id = "src" THEN "connector" ELSE "processor"

OutputKey(id) == IF id = "src" THEN "raw" ELSE "clean"

\* What a handler's invocation meets in one tick: the value its external
\* resource resolves to, or a failure (resource unavailable, timeout)
IOResults == {"1", "2", "fail"}

Failure(id, view, error) ==
  [id |-> id, view |-> view, ok |-> FALSE, patch |-> {}, error |-> error]

Success(id, view, patch) ==
  [id |-> id, view |-> view, ok |-> TRUE, patch |-> patch, error |-> Null]

\* execute(spec, state) -> Result<{patch, events}, HandlerError>
execute(id, view, io) ==
  IF KType(id) = "connector"
  THEN IF io = "fail"
       THEN Failure(id, view, "SourceUnavailable")
       ELSE Success(id, view, {<<OutputKey(id), io>>})
  ELSE IF io = "fail"
       THEN Failure(id, view, "Timeout")
       ELSE IF view["raw"] = Undefined
            THEN Failure(id, view, "ExpressionFailed")
            ELSE Success(id, view, {<<OutputKey(id), view["raw"]>>})

applyPatch(state, patch) ==
  [k \in StateKeys |->
     IF \E p \in patch : p[1] = k
     THEN (CHOOSE p \in patch : p[1] = k)[2]
     ELSE state[k]]

\* apply(currentState, patches) -> newState, patches in scan order
RECURSIVE apply(_, _)
apply(state, patches) ==
  IF patches = << >> THEN state
  ELSE apply(applyPatch(state, Head(patches)), Tail(patches))

\* runHandlers that lets each handler see the patches of those before it
RECURSIVE runHandlersThreaded(_, _, _)
runHandlersThreaded(order, start, io) ==
  IF order = << >> THEN << >>
  ELSE LET r == execute(Head(order), start, io[Head(order)])
       IN <<r>> \o runHandlersThreaded(Tail(order),
                                        applyPatch(start, r.patch), io)

\* runHandlers that gives up at the first failing handler
RECURSIVE runHandlersHalting(_, _, _)
runHandlersHalting(order, start, io) ==
  IF order = << >> THEN << >>
  ELSE LET r == execute(Head(order), start, io[Head(order)])
       IN IF r.ok
          THEN <<r>> \o runHandlersHalting(Tail(order), start, io)
          ELSE <<r>>

\* The handlers of the scanned services, each on the state as of the start
\* of the tick; a failure is a result like any other
RECURSIVE runHandlers(_, _, _)
runHandlers(order, start, io) ==
  IF order = << >> THEN << >>
  ELSE LET r == execute(Head(order), start, io[Head(order)])
       IN <<r>> \o runHandlers(Tail(order), start, io)

\* The event a result is reported with
EventOf(r, tick) ==
  IF r.ok
  THEN [name |-> "executed", for |-> r.id, level |-> "info", at |-> tick]
  ELSE [name |-> r.error, for |-> r.id, level |-> "error", at |-> tick]

RunningK == {id \in KServiceIds : kstatus[id] = "running"}

\* The orders in which the services of a set may be executed
Orders(S) ==
  {o \in [1..Cardinality(S) -> S] :
     \A i, j \in 1..Cardinality(S) : i # j => o[i] # o[j]}

IOs == [KServiceIds -> IOResults]

\* tick(): scan, execute, merge, append
Tick(order, io) ==
  LET results == runHandlers(order, kstate, io)
      patches == [k \in 1..Len(results) |-> results[k].patch]
      events  == [k \in 1..Len(results) |-> EventOf(results[k], tickCount + 1)]
      next    == apply(kstate, patches)
      patch   == {<<k, next[k]>> : k \in {p[1] : p \in UNION {patches[i] : i \in 1..Len(patches)}}}
  IN /\ Len(ledger) < MaxLedger
     /\ order \in Orders(RunningK)
     /\ kstate' = next
     /\ kstatus' = kstatus
     /\ lastTick' = [results |-> results, events |-> events]
     /\ tickCount' = tickCount + 1
     /\ ledger' = append(ledger, tickCount + 1, patch, events)
     /\ UNCHANGED <<now, EditorVars, LogVars>>

\* load(document): the services start in their declared status, with an
\* empty state and a fresh ledger
KernelLoad(status) ==
  /\ status # kstatus \/ ledger # << >>
  /\ kstatus' = status
  /\ kstate' = EmptyState
  /\ lastTick' = NoTick
  /\ ledger' = << >>
  /\ tickCount' = 0
  /\ UNCHANGED <<now, EditorVars, LogVars>>

NextTick ==
  \/ \E order \in Orders(RunningK), io \in IOs : Tick(order, io)
  \/ \E status \in [KServiceIds -> {"running", "stopped"}] : KernelLoad(status)

SpecTick == Init /\ [][NextTick]_vars

\* ------------------------------------------------------ log specification
\* addLog on the whole log, with the program's limits.  Entries are told
\* apart by the number of the call that appended them.
LogCall ==
  /\ logCalls < MaxLogCalls
  /\ logCalls' = logCalls + 1
  /\ executionLog' = addLogUpdater(executionLog, editor,
                        Entry("info", IF editor = "canvas"
                                      THEN "Single tick executed"
                                      ELSE "Manual tick executed",
                              NoId, logCalls + 1))
  /\ UNCHANGED <<now, EditorVars, TickVars, ledger, tickCount>>

NextLog == LogCall

SpecLog == Init /\ [][NextLog]_vars

\* ------------------------------------------------------------------ Next
Next ==
  \/ \E type \in PaletteInputs : AddService(type)
  \/ \E id \in Ids(spc) : DeleteService(id)
  \/ \E id \in Ids(spc) : SelectService(id)
  \/ CloseInspector
  \/ \E status \in {"running", "stopped"} : SetStatus(status)
  \/ \E i \in SpecInputs : HandleSpecChange(i)
  \/ \E i \in DocInputs : HandleJsonChange(i)
  \/ RunPipeline
  \/ StopPipeline
  \/ TickOnce
  \/ \E r \in 1..MaxRuns : IntervalTick(r)
  \/ \E r \in 1..MaxRuns : TimeoutFire(r)
  \/ ExportSPC
  \/ \E i \in FileInputs : ImportSPC(i)
  \/ ReaderOnload
  \/ AdvanceClock

Spec == Init /\ [][Next]_vars

\* ================================================================ claims
Last(s) == s[Len(s)]

LastLogged(message) == logs # << >> /\ Last(logs).message = message

ErrorReported == logs' # << >> /\ Last(logs').level = "error"

\* A tick of a run takes effect
RunTick == Mounted /\ \E r \in 1..MaxRuns : IntervalTick(r)

Running(doc) == {id \in Ids(doc) : doc.services[id].status = "running"}

Stopped(doc) == {id \in Ids(doc) : doc.services[id].status = "stopped"}

\* The text parses to a document without spc_version or without services
Incomplete(text) ==
  Parses(text) /\ (JSONparse(text).spc_version = Undefined
                   \/ ~JSONparse(text).has_services)

\* The text parses to a document holding a service of a type the editor's
\* type table does not list
HasUnknownType(ed, text) ==
  /\ Parses(text)
  /\ \E id \in Ids(JSONparse(text)) :
        JSONparse(text).services[id].type \notin KnownTypes(ed)

Keys(object) == {p[1] : p \in object}

\* The spec of a service has the fields of its type's default spec
SpecMatchesType(s) ==
  /\ s.type \in DOMAIN SERVICE_TYPES
  /\ Keys(s.spec) = Keys(SERVICE_TYPES[s.type])

\* C1: after stop (the stop being the last logged event, so no run was
\* started since), no tick of a run begins.
C1_NoTickAfterStop ==
  [][LastLogged("Pipeline stopped by user") => ~RunTick]_vars

\* C2: a load of a document that lacks spc_version or services is refused:
\* the document stays unchanged and an error is reported, in both editors.
C2_LoadRejectsIncomplete ==
  [][(/\ reads # << >>
      /\ Mounted
      /\ Incomplete(Head(reads))
      /\ ReaderOnload)
     => (spc' = spc /\ ErrorReported)]_vars

\* C3: text typed in the JSON editor replaces the document only when it
\* parses and has spc_version and services; otherwise the document is
\* unchanged and a JSON error is set.
C3_JsonEditValidates ==
  [][\A i \in DocInputs :
       HandleJsonChange(i) =>
         IF Parses(DocText(i)) /\ ~Incomplete(DocText(i))
         THEN spc' = JSONparse(DocText(i))
         ELSE spc' = spc /\ jsonError' # Null]_vars

\* C4: a load of a document holding a service of an unlisted type fails:
\* the document is not replaced and an error is reported.
C4_UnknownTypeRejected ==
  [][(/\ reads # << >>
      /\ Mounted
      /\ HasUnknownType(editor, Head(reads))
      /\ ReaderOnload)
     => (spc' = spc /\ ErrorReported)]_vars

\* C5: in every reachable state each service's spec has the shape of its
\* declared type.
C5_SpecMatchesType ==
  \A id \in Ids(spc) : SpecMatchesType(spc.services[id])

\* C6: a run executes no tick when the document holds no running service.
C6_RunEndsWhenNothingRuns ==
  [][RunTick => Running(spc) # {}]_vars

\* C7: at most one tick loop is armed at any time.
C7_OneTickLoop ==
  editor = "enhanced" => Len(due) <= 1

\* C8: while a run of the enhanced editor is active (running flag set, timer
\* armed) the document is changed only by ticks of a run.
C8_EditsOnlyBetweenRuns ==
  [][(editor = "enhanced" /\ isRunning /\ due # << >> /\ spc' # spc)
     => RunTick]_vars

\* C9: tickOnce executes every running service (as a tick of a run does:
\* it stamps lastRun with the current time).
C9_TickOnceExecutesRunning ==
  [][TickOnce => \A id \in Running(spc) : spc'.services[id].lastRun = now]_vars

\* C10: a tick (of a run, or tickOnce) leaves every service that is stopped
\* at its start as it was: same status, spec and lastRun.
C10_TickLeavesStoppedAlone ==
  [][(TickOnce \/ \E r \in 1..MaxRuns : IntervalTick(r))
     => \A id \in Stopped(spc) :
          /\ id \in Ids(spc')
          /\ spc'.services[id] = spc.services[id]]_vars

\* C10 witness: a tick of a run was the last logged event, it executed a
\* running service and a stopped service next to it was never stamped.
C10_Witness ==
  /\ editor = "enhanced"
  /\ Mounted
  /\ LastLogged("Tick - Processing services")
  /\ \E id \in Running(spc) : spc.services[id].lastRun # NoLastRun
  /\ \E id \in Stopped(spc) : spc.services[id].lastRun = NoLastRun

\* A tick: of a run, or the tick-once button
AnyTick == TickOnce \/ \E r \in 1..MaxRuns : IntervalTick(r)

\* C11: a tick executed while no service is running leaves the shared
\* state map of the document as it was.
C11_IdleTickKeepsState ==
  [][(AnyTick /\ Running(spc) = {}) => spc'.state = spc.state]_vars

\* C11 witness: a tick of a run was the last logged event, no service is
\* running or was ever executed, and the document carries shared state.
C11_Witness ==
  /\ editor = "enhanced"
  /\ Mounted
  /\ LastLogged("Tick - Processing services")
  /\ Running(spc) = {}
  /\ \A id \in Ids(spc) : spc.services[id].lastRun = NoLastRun
  /\ spc.state # {}

\* C12: every tick advances a tick counter by exactly one and appends the
\* record of that tick, numbered with the new count.
C12_TickAdvancesCounter ==
  [][(Mounted /\ AnyTick)
     => \E r \in 1..Len(timers) :
          /\ timers'[r].tick = timers[r].tick + 1
          /\ logs' # << >>
          /\ Last(logs').tick = timers'[r].tick]_vars

\* C14: a running adapter that fires in a tick of a run is stopped after
\* that tick (no document of the model sets hold).
C14_AdapterStopsAfterFiring ==
  [][RunTick
     => \A id \in Running(spc) :
          spc.services[id].type = "adapter"
          => spc'.services[id].status = "stopped"]_vars

\* Types whose services stay running after firing
StayRunningTypes == {"connector", "processor", "monitor", "router"}

\* C15: a running connector, processor, monitor or router is still running
\* after a tick.
C15_TickKeepsRunning ==
  [][AnyTick
     => \A id \in Running(spc) :
          spc.services[id].type \in StayRunningTypes
          => /\ id \in Ids(spc')
             /\ spc'.services[id].status = "running"]_vars

\* C15 witness: a run has ticked at least twice, a tick was the last logged
\* event, and a connector it executed is still running.
C15_Witness ==
  /\ editor = "enhanced"
  /\ Mounted
  /\ LastLogged("Tick - Processing services")
  /\ \E r \in 1..Len(timers) : timers[r].tick >= 2
  /\ \E id \in Running(spc) :
        /\ spc.services[id].type \in StayRunningTypes
        /\ spc.services[id].lastRun # NoLastRun

\* C16: what a tick of a run writes into the document does not depend on
\* the wall clock: at any other clock value it would write the same.
C16_TickIgnoresClock ==
  [][RunTick => \A t \in 0..MaxClock : spc' = TickBody(spc, t)]_vars

\* C17: addService creates the service under an id no existing service has:
\* the document gains exactly one service and keeps every other as it was.
C17_AddCreatesFreshId ==
  [][\A type \in PaletteInputs :
       AddService(type)
       => /\ <<type, now>> \notin Ids(spc)
          /\ Cardinality(Ids(spc')) = Cardinality(Ids(spc)) + 1
          /\ \A id \in Ids(spc) : spc'.services[id] = spc.services[id]]_vars

\* C13: stop is idempotent: a second stop right after a stop, with no start
\* in between, would leave the running flag, the pending ticks and the
\* document as the first stop left them.
C13_StopIdempotent ==
  [][StopPipeline => stopPipeline(Sched') = Sched']_vars

\* C13 witness: the pipeline was stopped while a tick of its run was still
\* pending.
C13_Witness ==
  /\ Mounted
  /\ LastLogged(IF editor = "canvas" THEN "Pipeline stopped"
                ELSE "Pipeline stopped by user")
  /\ ~isRunning
  /\ due # << >>

\* The nodes on the canvas: those of canvasNodes while the editor is
\* mounted, none once a render has thrown
ShownNodes == IF Mounted THEN canvasNodes ELSE {}

\* C18: in the canvas editor, unless the JSON box holds an edit that does not
\* parse, the canvas shows exactly one node per service of the document,
\* with its id, type and status, and the JSON text is the serialization of
\* the document.
C18_CanvasAndJsonInSync ==
  (editor = "canvas" /\ Parses(jsonText))
  => /\ \A id \in Ids(spc) :
          \E n \in ShownNodes : /\ n.id = id
                                /\ n.type = spc.services[id].type
                                /\ n.status = spc.services[id].status
     /\ \A n \in ShownNodes : n.id \in Ids(spc)
     /\ Cardinality(ShownNodes) = Cardinality(Ids(spc))
     /\ jsonText = JSONstringify(spc)

\* C19: export followed by import of the exported text yields the document
\* that was exported, whatever document is current when the file is loaded.
C19_ExportImportRoundTrip ==
  [][(/\ reads # << >>
      /\ exported # << >>
      /\ Head(reads) = exported[1]
      /\ Mounted
      /\ ReaderOnload)
     => spc' = JSONparse(exported[1])]_vars

\* C20: in every reachable ledger each record's hash is H of its prevHash
\* and its serialized tick, patch and events; the first record's prevHash
\* is the genesis constant and every later record's prevHash is the hash of
\* the record before it.
C20_LedgerChained ==
  \A k \in 1..Len(ledger) :
    /\ ledger[k].hash = H(ledger[k].prevHash,
                          serialize(ledger[k].tick, ledger[k].patch,
                                    ledger[k].events))
    /\ k = 1 => ledger[k].prevHash = Genesis
    /\ k > 1 => ledger[k].prevHash = ledger[k - 1].hash

\* C20 witness: a ledger of at least two records whose last carries a patch
\* and an event.
C20_Witness ==
  /\ Len(ledger) >= 2
  /\ ledger[Len(ledger)].patch # {}
  /\ ledger[Len(ledger)].events # << >>
  /\ ledger[Len(ledger)].prevHash # Genesis

\* C24: in the canvas editor a stopped run has no later effect: after stop
\* (the stop being the last logged event, so no run was started since) no
\* completion timer appends its entry or changes the running flag.
C24_StoppedRunHasNoEffect ==
  [][(editor = "canvas" /\ Mounted /\ LastLogged("Pipeline stopped"))
     => ~ \E r \in 1..MaxRuns :
            TimeoutFire(r) /\ (logs' # logs \/ isRunning' # isRunning)]_vars

\* C25: in the canvas editor a selected id is always a key of the
\* document's services.
C25_SelectionExists ==
  (editor = "canvas" /\ selectedService # NoId) => selectedService \in Ids(spc)

\* C26: in the enhanced editor the spec text of an open inspector that
\* shows no error is the spec of the selected service.
C26_InspectorShowsSelected ==
  (editor = "enhanced" /\ Mounted /\ inspector.mounted /\ inspector.error = Null)
  => inspector.specJson = JSONstringify(spc.services[selectedService].spec)

\* C27: in the canvas editor, when the JSON text is the serialization of
\* the document and no import has failed (every import leaves a log entry:
\* the log is empty, or its last entry is a successful import), jsonError
\* is null.
C27_NoStaleJsonError ==
  (/\ editor = "canvas"
   /\ Mounted
   /\ logs = << >> \/ LastLogged("SPC imported successfully")
   /\ jsonText = JSONstringify(spc))
  => jsonError = Null

\* C28: once a run has ended (the running flag is false again) no timer of
\* a run remains pending.
C28_EndedRunHasNoTimer ==
  (Mounted /\ ~isRunning) => due = << >>

\* C30: deleteService(id) removes exactly the service id, leaves every other
\* service, the state map and the meta as they were, and clears the
\* selection exactly when the deleted service was the selected one.
C30_DeleteFrame ==
  [][\A id \in Ids(spc) :
       DeleteService(id)
       => /\ Ids(spc') = Ids(spc) \ {id}
          /\ \A j \in Ids(spc') : spc'.services[j] = spc.services[j]
          /\ spc'.state = spc.state
          /\ spc'.meta = spc.meta
          /\ spc'.spc_version = spc.spc_version
          /\ selectedService = id => selectedService' = NoId
          /\ selectedService # id => selectedService' = selectedService]_vars

\* C30 witness: a service was deleted (the enhanced editor logs it) from a
\* document with shared state, while another service stays selected.
C30_Witness ==
  /\ editor = "enhanced"
  /\ Mounted
  /\ LastLogged("Deleted service")
  /\ selectedService # NoId
  /\ selectedService \in Ids(spc)
  /\ spc.state # {}

\* C29: every addLog appends its entry last, drops only oldest entries, and
\* leaves at most 50 entries in the canvas editor and 30 in the enhanced.
C29_LogBounded ==
  [][LogCall
     => /\ Len(executionLog') <= LogLimit(editor)
        /\ Last(executionLog').tick = logCalls'
        /\ \E d \in 0..Len(executionLog) :
             /\ executionLog' =
                  Append(SubSeq(executionLog, d + 1, Len(executionLog)),
                         Last(executionLog'))
             /\ d > 0 => Len(executionLog') = LogLimit(editor)]_vars

\* C29 witness: the canvas editor's log is full and its oldest entries
\* have been dropped.
C29_Witness ==
  /\ editor = "canvas"
  /\ Len(executionLog) = LogLimitCanvas
  /\ executionLog[1].tick > 1
  /\ Last(executionLog).tick = logCalls

\* Hash values an altered record may carry
ForgedHashes(led) ==
  {Genesis, H(Genesis, serialize(0, {}, << >>))}
    \cup {led[k].hash : k \in 1..Len(led)}

\* The ledgers that differ from led in one field (tick, patch, events,
\* prevHash or hash) of one record
Tampered(led) ==
  ( {[led EXCEPT ![k].tick = v] : k \in 1..Len(led), v \in 0..(MaxLedger + 1)}
    \cup {[led EXCEPT ![k].patch = v] : k \in 1..Len(led), v \in Patches}
    \cup {[led EXCEPT ![k].events = v] : k \in 1..Len(led), v \in EventLists}
    \cup {[led EXCEPT ![k].prevHash = v] :
             k \in 1..Len(led), v \in ForgedHashes(led)}
    \cup {[led EXCEPT ![k].hash = v] :
             k \in 1..Len(led), v \in ForgedHashes(led)} ) \ {led}

\* C21: verify returns true for every ledger produced by ticks and false for
\* every ledger in which one field of one record has been altered.
C21_VerifyDetectsTampering ==
  /\ verify(ledger)
  /\ \A t \in Tampered(ledger) : ~verify(t)

\* C21 witness: a ledger of three records with alterations of its first
\* record's patch and of its second record's hash among the tampered ones.
C21_Witness ==
  /\ Len(ledger) = 3
  /\ verify(ledger)
  /\ \E t \in Tampered(ledger) : t[1].patch # ledger[1].patch
  /\ \E t \in Tampered(ledger) : t[2].hash # ledger[2].hash

\* C22: within one tick every handler reads the shared state as it was at
\* the start of the tick, whatever the order of execution: each result is
\* what the handler computes from that state.
C22_HandlersSeeStartState ==
  [][\A order \in Orders(RunningK), io \in IOs :
       Tick(order, io)
       => /\ Len(lastTick'.results) = Len(order)
          /\ \A k \in 1..Len(order) :
               /\ lastTick'.results[k].view = kstate
               /\ lastTick'.results[k] =
                    execute(order[k], kstate, io[order[k]])]_vars

\* C22 witness: in the last tick the connector ran first and wrote a value
\* of `raw` other than the one the processor, run after it, derived from.
C22_Witness ==
  /\ Len(lastTick.results) = 2
  /\ lastTick.results[1].id = "src"
  /\ lastTick.results[1].ok
  /\ lastTick.results[2].ok
  /\ lastTick.results[2].view["raw"] # kstate["raw"]
  /\ kstate["clean"] = lastTick.results[2].view["raw"]

\* C23: a handler that fails in a tick halts neither the tick nor the run:
\* every running service is executed, each failure is reported as an error
\* event, the failing service's key is not written, the tick is counted
\* and the services stay as they were.
C23_FailureIsolated ==
  [][\A order \in Orders(RunningK), io \in IOs :
       Tick(order, io)
       => LET failed == {id \in RunningK : ~execute(id, kstate, io[id]).ok}
          IN /\ {lastTick'.results[k].id : k \in 1..Len(lastTick'.results)}
                  = RunningK
             /\ \A id \in failed :
                  /\ \E e \in 1..Len(lastTick'.events) :
                       /\ lastTick'.events[e].for = id
                       /\ lastTick'.events[e].level = "error"
                  /\ kstate'[OutputKey(id)] = kstate[OutputKey(id)]
             /\ \A id \in RunningK \ failed :
                  \E p \in execute(id, kstate, io[id]).patch :
                     kstate'[p[1]] = p[2]
             /\ tickCount' = tickCount + 1
             /\ Len(ledger') = Len(ledger) + 1
             /\ kstatus' = kstatus]_vars

\* C23 witness: in the last tick the connector, run first, failed and the
\* processor run after it succeeded and wrote `clean`.
C23_Witness ==
  /\ Len(lastTick.results) = 2
  /\ lastTick.results[1].id = "src"
  /\ ~lastTick.results[1].ok
  /\ lastTick.events[1].level = "error"
  /\ lastTick.results[2].ok
  /\ kstate["clean"] # Undefined

====
